---- MODULE Spec2Model ----
(***************************************************************************)
(* A model of orbitd's update daemon: the scheduler (Updater.Start and     *)
(* Updater.RunOnce), the per-container update decision                     *)
(* (Updater.updateContainer, FindUpdateTarget) and the container           *)
(* replacement transaction (Updater.recreateContainer), run against a      *)
(* small container engine and image registry.                              *)
(***************************************************************************)
EXTENDS Integers, Sequences, FiniteSets, TLC

\* ------------------------------------------------------------------ bounds

\* Tags the registry lists in one call of FindUpdateTarget taken on its own.
MaxTags == 3

\* Engine or registry calls that may fail for a reason other than
\* cancellation during one run of the daemon.
MaxFaults == 1

\* Containers that may exit on their own during one run of the daemon.
MaxExits == 1

\* ------------------------------------------------------- tags and versions

\* A tag is a dotted run of numbers ("1.2.3", "15") or a word ("latest").
NumTag(p) == [parts |-> p, word |-> ""]
WordTag(w) == [parts |-> <<>>, word |-> w]
NoTag == WordTag("")

\* semver.NewVersion as the resolver uses it: a dotted tag of one to three
\* numbers parses, missing parts read as zero; a word does not parse.
NewVersion(tag) ==
    IF tag.word = "" /\ Len(tag.parts) \in 1..3
    THEN [ok |-> TRUE,
          major |-> tag.parts[1],
          minor |-> IF Len(tag.parts) >= 2 THEN tag.parts[2] ELSE 0,
          patch |-> IF Len(tag.parts) >= 3 THEN tag.parts[3] ELSE 0]
    ELSE [ok |-> FALSE, major |-> 0, minor |-> 0, patch |-> 0]

\* Version.GreaterThan: precedence by major, then minor, then patch.
GreaterThan(v, w) ==
    \/ v.major > w.major
    \/ v.major = w.major /\ v.minor > w.minor
    \/ v.major = w.major /\ v.minor = w.minor /\ v.patch > w.patch

\* ------------------------------------------------------------ update policy

PolicyDigest == "digest"
PolicyPatch == "patch"
PolicyMinor == "minor"
PolicyMajor == "major"

IsValid(p) == p \in {PolicyDigest, PolicyPatch, PolicyMinor, PolicyMajor}

\* Ranges that end at the next major whatever the current version.
TildeUpperNextMajor(cur) ==
    [ok |-> TRUE, major |-> cur.major + 1, minor |-> 0, patch |-> 0]
CaretUpperNextMajor(cur) ==
    [ok |-> TRUE, major |-> cur.major + 1, minor |-> 0, patch |-> 0]

\* Upper ends of the ranges "~cur" and "^cur" (exclusive).
TildeUpper(cur) == [ok |-> TRUE, major |-> cur.major, minor |-> cur.minor + 1, patch |-> 0]

CaretUpper(cur) ==
    IF cur.major > 0
    THEN [ok |-> TRUE, major |-> cur.major + 1, minor |-> 0, patch |-> 0]
    ELSE IF cur.minor > 0
    THEN [ok |-> TRUE, major |-> 0, minor |-> cur.minor + 1, patch |-> 0]
    ELSE [ok |-> TRUE, major |-> 0, minor |-> 0, patch |-> cur.patch + 1]

\* The constraint string built for a policy: "~cur, > cur" (patch),
\* "^cur, > cur" (minor), "> cur" (major and anything else).
buildConstraint(current, policy) ==
    [range |-> IF policy = PolicyPatch THEN "~"
               ELSE IF policy = PolicyMinor THEN "^"
               ELSE "",
     than |-> current]

\* Constraints.Check: every comma-separated part must hold.
Check(constraint, v) ==
    /\ GreaterThan(v, constraint.than)
    /\ constraint.range = "~" => GreaterThan(TildeUpper(constraint.than), v)
    /\ constraint.range = "^" => GreaterThan(CaretUpper(constraint.than), v)

\* ------------------------------------------------------- image references

\* "repo:tag", "repo@sha256:digest", or the bare image ID "sha256:id" the
\* engine reports for a container whose tag has moved to another image.
TagRef(repo, tag) == [kind |-> "tag", repo |-> repo, tag |-> tag, dig |-> 0]
DigestRef(repo, d) == [kind |-> "digest", repo |-> repo, tag |-> NoTag, dig |-> d]
IDRef(d) == [kind |-> "id", repo |-> "", tag |-> NoTag, dig |-> d]
NoImage == IDRef(0)

\* strings.HasPrefix(c.Image, "sha256:")
IsUntaggedDigest(image) == image.kind = "id"

\* parseImage: repository and tag; a digest reference reports no tag.
parseImage(image) ==
    [repo |-> image.repo,
     tag |-> IF image.kind = "tag" THEN image.tag ELSE NoTag,
     hasTag |-> image.kind = "tag"]

\* The loop of findBestVersion over tags[from..]: the first tag holding the
\* greatest version that satisfies the constraint, as <<found, version, tag>>.
RECURSIVE bestFrom(_, _, _, _)
bestFrom(tags, constraint, from, best) ==
    IF from > Len(tags) THEN best
    ELSE LET v == NewVersion(tags[from]) IN
         IF ~v.ok \/ ~Check(constraint, v)
         THEN bestFrom(tags, constraint, from + 1, best)
         ELSE IF ~best.found \/ GreaterThan(v, best.version)
         THEN bestFrom(tags, constraint, from + 1,
                       [found |-> TRUE, version |-> v, pullTag |-> tags[from]])
         ELSE bestFrom(tags, constraint, from + 1, best)

NoBest == [found |-> FALSE, version |-> NewVersion(NoTag), pullTag |-> NoTag]

\* A search that stops at the first tag satisfying the constraint.
findBestVersionFirstMatch(repo, tags, current, policy) ==
    LET fits == {i \in DOMAIN tags :
                    /\ NewVersion(tags[i]).ok
                    /\ Check(buildConstraint(current, policy), NewVersion(tags[i]))}
    IN IF fits = {} THEN NoImage
       ELSE TagRef(repo, tags[CHOOSE i \in fits : \A j \in fits : i <= j])

\* findBestVersion: "" (here NoImage) when no tag satisfies the constraint.
findBestVersion(repo, tags, current, policy) ==
    LET best == bestFrom(tags, buildConstraint(current, policy), 1, NoBest) IN
    IF ~best.found THEN NoImage ELSE TagRef(repo, best.pullTag)

\* Whether FindUpdateTarget gets as far as listing the registry's tags.
ListsTags(currentImage, policy) ==
    /\ IsValid(policy) /\ policy # PolicyDigest
    /\ parseImage(currentImage).hasTag
    /\ NewVersion(parseImage(currentImage).tag).ok

\* A resolver that reports a tag that is no version as an error.
FindUpdateTargetStrict(currentImage, policy, listOk, tags) ==
    IF ~IsValid(policy) \/ policy = PolicyDigest
    THEN [target |-> currentImage, err |-> FALSE]
    ELSE IF ~parseImage(currentImage).hasTag
    THEN [target |-> currentImage, err |-> FALSE]
    ELSE IF ~NewVersion(parseImage(currentImage).tag).ok
    THEN [target |-> NoImage, err |-> TRUE]
    ELSE IF ~listOk
    THEN [target |-> NoImage, err |-> TRUE]
    ELSE [target |-> findBestVersion(parseImage(currentImage).repo, tags,
                                     NewVersion(parseImage(currentImage).tag), policy),
          err |-> FALSE]

\* A resolver that answers the current image when no tag is newer.
FindUpdateTargetKeepsCurrent(currentImage, policy, listOk, tags) ==
    IF ~IsValid(policy) \/ policy = PolicyDigest
    THEN [target |-> currentImage, err |-> FALSE]
    ELSE IF ~parseImage(currentImage).hasTag
    THEN [target |-> currentImage, err |-> FALSE]
    ELSE IF ~NewVersion(parseImage(currentImage).tag).ok
    THEN [target |-> currentImage, err |-> FALSE]
    ELSE IF ~listOk
    THEN [target |-> NoImage, err |-> TRUE]
    ELSE IF findBestVersion(parseImage(currentImage).repo, tags,
                            NewVersion(parseImage(currentImage).tag), policy) = NoImage
    THEN [target |-> currentImage, err |-> FALSE]
    ELSE [target |-> findBestVersion(parseImage(currentImage).repo, tags,
                                     NewVersion(parseImage(currentImage).tag), policy),
          err |-> FALSE]

\* A resolver that answers the current image when the tag listing fails.
FindUpdateTargetListOptional(currentImage, policy, listOk, tags) ==
    IF ~IsValid(policy) \/ policy = PolicyDigest
    THEN [target |-> currentImage, err |-> FALSE]
    ELSE IF ~parseImage(currentImage).hasTag
    THEN [target |-> currentImage, err |-> FALSE]
    ELSE IF ~NewVersion(parseImage(currentImage).tag).ok
    THEN [target |-> currentImage, err |-> FALSE]
    ELSE IF ~listOk
    THEN [target |-> currentImage, err |-> FALSE]
    ELSE [target |-> findBestVersion(parseImage(currentImage).repo, tags,
                                     NewVersion(parseImage(currentImage).tag), policy),
          err |-> FALSE]

\* FindUpdateTarget, given the outcome of crane.ListTags when it is called:
\* the target image (NoImage for "") and whether an error is returned.
FindUpdateTarget(currentImage, policy, listOk, tags) ==
    IF ~IsValid(policy) \/ policy = PolicyDigest
    THEN [target |-> currentImage, err |-> FALSE]
    ELSE IF ~parseImage(currentImage).hasTag
    THEN [target |-> currentImage, err |-> FALSE]
    ELSE IF ~NewVersion(parseImage(currentImage).tag).ok
    THEN [target |-> currentImage, err |-> FALSE]
    ELSE IF ~listOk
    THEN [target |-> NoImage, err |-> TRUE]
    ELSE [target |-> findBestVersion(parseImage(currentImage).repo, tags,
                                     NewVersion(parseImage(currentImage).tag), policy),
          err |-> FALSE]

\* ------------------------------------------------------------------- state

VARIABLES
    cfg,            \* config.Config: Policy, Cleanup, RequireLabel
    hostname,       \* the name os.Hostname returns when it succeeds
    engine,         \* the engine's containers, by ID
    nextID,         \* the ID the engine gives the next container it creates
    localImages,    \* the engine's image store: reference -> image, 0 when absent
    ctxCancelled,   \* whether the context passed to Start is cancelled
    tickPending,    \* whether ticker.C holds a tick (the channel buffers one)
    faults,         \* calls failed so far for a reason other than cancellation
    hostnameFailed, \* whether os.Hostname has failed so far
    pullFailed,     \* the containers whose latest image pull failed
    exits,          \* containers that exited on their own so far
    pc,             \* where the daemon's single goroutine stands
    list,           \* RunOnce: containers.Items
    idx,            \* RunOnce: position of the loop in list
    c,              \* updateContainer: the container summary being processed
    policy,         \* updateContainer: policy
    targetImage,    \* updateContainer: targetImage
    oldDigest,      \* updateContainer: oldDigest
    newDigest,      \* updateContainer: newDigest
    tx,             \* recreateContainer: its locals and the calls it has made
    issued,         \* every call the daemon has issued, with the container it was for
    activeCycles,   \* calls of RunOnce entered and not yet returned
    processed,      \* the current cycle's calls of updateContainer: the container,
                    \* and whether the call ended on a logged warning or error
    runOnceErr,     \* whether the last RunOnce returned an error
    query,          \* a call of FindUpdateTarget on its own: the image and the
                    \* registry's tag list
    answer          \* what that call returned, for which policy

config == <<cfg, hostname>>
world == <<engine, nextID, localImages>>
env == <<ctxCancelled, tickPending, exits>>
locals == <<c, policy, targetImage, oldDigest, newDigest>>
loop == <<list, idx, activeCycles, runOnceErr>>
cycle == <<loop, processed>>
resolver == <<query, answer>>
vars == <<config, world, env, faults, hostnameFailed, pullFailed, pc, locals, tx,
          cycle, issued, resolver>>

\* --------------------------------------------------- the engine's world

Repo == "app"
TagA == NumTag(<<1, 2, 3>>)
TagLatest == WordTag("latest")

\* The registry's tag list for the repository, in the order it is returned.
RegistryTags ==
    <<NumTag(<<1, 2, 3>>), NumTag(<<1, 2, 4>>), NumTag(<<1, 3, 0>>),
      NumTag(<<2, 0, 0>>), WordTag("dev"), TagLatest>>

TagSet == {RegistryTags[i] : i \in 1..Len(RegistryTags)}
Refs == {TagRef(Repo, t) : t \in TagSet}

\* The image the registry serves for each tag. Tag 1.2.3 has been rebuilt
\* since the host pulled it (image 2, the host holds image 1); "latest" has
\* not (image 6 on both sides).
RegistryImage(tag) ==
    IF tag = NumTag(<<1, 2, 3>>) THEN 2
    ELSE IF tag = NumTag(<<1, 2, 4>>) THEN 3
    ELSE IF tag = NumTag(<<1, 3, 0>>) THEN 4
    ELSE IF tag = NumTag(<<2, 0, 0>>) THEN 5
    ELSE IF tag = TagLatest THEN 6
    ELSE 7

\* A container ID as a string of characters; os.Hostname inside a container
\* is by default a prefix of the container's ID.
ContainerID(n) == <<n, 0>>
HasPrefix(s, prefix) ==
    Len(prefix) <= Len(s) /\ SubSeq(s, 1, Len(prefix)) = prefix

\* Engine names carry a leading "/".
EngineName(name) == <<"/">> \o name
TrimPrefix(name) == IF Len(name) > 0 /\ name[1] = "/" THEN Tail(name) ELSE name
BackupName(containerName) == containerName \o <<"-orbitd-old">>

NameTaken(name) == \E id \in DOMAIN engine : engine[id].name = EngineName(name)

Container(name, image, imageID, labels, tok) ==
    [name |-> EngineName(name),
     running |-> TRUE,
     config |-> [Image |-> image, Labels |-> labels, Env |-> <<"env", tok>>],
     hostConfig |-> <<"host", tok>>,
     networks |-> {<<"net", tok>>},
     imageID |-> imageID]

\* The label sets the first container may carry.
LabelKeys == {"orbitd.enable", "orbitd.policy"}
EnableValues == {"true", "false"}
PolicyLabelValues == {PolicyMinor, "bogus"}
Absent == [has |-> FALSE, val |-> ""]
Present(v) == [has |-> TRUE, val |-> v]
NoLabels == [k \in LabelKeys |-> Absent]
LabelSets ==
    {NoLabels}
    \cup {[NoLabels EXCEPT !["orbitd.enable"] = Present(v)] : v \in EnableValues}
    \cup {[NoLabels EXCEPT !["orbitd.policy"] = Present(v)] : v \in PolicyLabelValues}

\* labels[key] of a Go map: the empty string when the key is absent.
Label(labels, key) == IF labels[key].has THEN labels[key].val ELSE ""

\* The daemon runs in the first container (its hostname is the start of
\* that container's ID) or outside any listed container.
Hostnames == {<<1>>, <<9>>}

Configs ==
    [Policy : {PolicyDigest, PolicyPatch, PolicyMinor, PolicyMajor},
     Cleanup : BOOLEAN,
     RequireLabel : BOOLEAN]

NoSummary == [ID |-> 0, Names |-> <<>>, Image |-> NoImage, ImageID |-> 0, Labels |-> NoLabels]
NoDigest == [form |-> "", image |-> 0]
NoConfig == [Image |-> NoImage, Labels |-> NoLabels, Env |-> <<>>]
NoInspect == [Name |-> <<>>, Running |-> FALSE, Config |-> NoConfig,
              HostConfig |-> <<>>, Networks |-> {}]
NoRequest == [issued |-> FALSE, name |-> <<>>, config |-> NoConfig,
              hostConfig |-> <<>>, networks |-> {}]
NoTx == [containerID |-> 0, imageName |-> NoImage, oldImageID |-> 0,
         ins |-> NoInspect, containerName |-> <<>>, request |-> NoRequest,
         calls |-> <<>>]

NoQuery == [image |-> NoImage, tags |-> <<>>]
NoAnswer == [asked |-> FALSE, policy |-> "", listOk |-> TRUE, listed |-> FALSE,
             target |-> NoImage, err |-> FALSE]

\* The engine's image store with the build imageA under the tag of
\* container a.
Store(imageA) ==
    [r \in Refs |->
        IF r = TagRef(Repo, TagA) THEN imageA
        ELSE IF r = TagRef(Repo, TagLatest) THEN 6
        ELSE 0]

\* The daemon and the engine before Start, over a given image store.
InitOver(store) ==
    /\ cfg \in Configs
    /\ hostname \in Hostnames
    /\ \E labels \in LabelSets :
         engine = (1 :> Container(<<"a">>, TagRef(Repo, TagA), 1, labels, "a"))
               @@ (2 :> Container(<<"b">>, TagRef(Repo, TagLatest), 6, NoLabels, "b"))
    /\ nextID = 3
    /\ localImages = store
    /\ ctxCancelled = FALSE
    /\ tickPending = FALSE
    /\ faults = 0
    /\ hostnameFailed = FALSE
    /\ pullFailed = {}
    /\ exits = 0
    /\ pc = "start"
    /\ list = <<>>
    /\ idx = 0
    /\ c = NoSummary
    /\ policy = ""
    /\ targetImage = NoImage
    /\ oldDigest = NoDigest
    /\ newDigest = NoDigest
    /\ tx = NoTx
    /\ issued = {}
    /\ activeCycles = 0
    /\ processed = <<>>
    /\ runOnceErr = FALSE

\* The store holds the builds the containers run.
InitDaemon == InitOver(Store(1))

Init ==
    /\ InitDaemon
    /\ query = NoQuery
    /\ answer = NoAnswer

\* ------------------------------------------------------- calls that can fail

\* How a call on the engine or the registry can end: it fails once the
\* context is cancelled, and may fail on its own while faults remain.
Outcomes ==
    IF ctxCancelled THEN {FALSE}
    ELSE IF faults < MaxFaults THEN {TRUE, FALSE}
    ELSE {TRUE}

Charged(ok) == IF ok \/ ctxCancelled THEN faults ELSE faults + 1

\* The same for a call made after os.Hostname has failed in the same step.
OutcomesAfter(hostnameOk) ==
    IF ctxCancelled THEN {FALSE}
    ELSE IF hostnameOk /\ faults < MaxFaults THEN {TRUE, FALSE}
    ELSE IF ~hostnameOk /\ faults + 1 < MaxFaults THEN {TRUE, FALSE}
    ELSE {TRUE}

Call(op, id) == [op |-> op, id |-> id]
Made(op, ok) == [op |-> op, ok |-> ok]

\* ------------------------------------------------------------ the scheduler

\* Entering RunOnce.
EnterRunOnce ==
    /\ pc' = "list"
    /\ activeCycles' = activeCycles + 1
    /\ processed' = <<>>
    /\ list' = <<>>
    /\ idx' = 0
    /\ UNCHANGED runOnceErr

\* Start, up to its first call of RunOnce.
Start ==
    /\ pc = "start"
    /\ EnterRunOnce
    /\ UNCHANGED <<config, resolver, pullFailed, hostnameFailed, world, env, faults,
                   locals, tx,
                   issued>>

\* The image a container summary shows: the reference the container was
\* created from, or the bare image ID once that reference names another image.
SummaryImages(id) ==
    IF localImages[engine[id].config.Image] = engine[id].imageID
    THEN {engine[id].config.Image}
    ELSE {engine[id].config.Image, IDRef(engine[id].imageID)}

Summary(id, image) ==
    [ID |-> id, Names |-> <<engine[id].name>>, Image |-> image,
     ImageID |-> engine[id].imageID, Labels |-> engine[id].config.Labels]

\* The running containers, newest first, as ContainerList returns them.
RECURSIVE NewestFirst(_)
NewestFirst(ids) ==
    IF ids = {} THEN <<>>
    ELSE LET newest == CHOOSE n \in ids : \A m \in ids : m <= n
         IN <<newest>> \o NewestFirst(ids \ {newest})

Running == {id \in DOMAIN engine : engine[id].running}

\* RunOnce: ContainerList and its error return.
ContainerList ==
    /\ pc = "list"
    /\ \E ok \in Outcomes :
         /\ faults' = Charged(ok)
         /\ issued' = issued \cup {Call("list", 0)}
         /\ IF ok
            THEN /\ \E shown \in [Running -> UNION {SummaryImages(id) : id \in Running}] :
                      /\ \A id \in Running : shown[id] \in SummaryImages(id)
                      /\ list' = [i \in 1..Cardinality(Running) |->
                                    Summary(NewestFirst(Running)[i],
                                            shown[NewestFirst(Running)[i]])]
                 /\ idx' = 1
                 /\ pc' = "loop"
                 /\ UNCHANGED <<activeCycles, runOnceErr>>
            ELSE /\ runOnceErr' = TRUE
                 /\ activeCycles' = activeCycles - 1
                 /\ pc' = "select"
                 /\ UNCHANGED <<list, idx>>
    /\ UNCHANGED <<config, resolver, pullFailed, hostnameFailed, world, env, locals, tx,
                   processed>>

\* A loop head that also passes over a container whose latest pull failed.
DisabledOrPullFailed(summary) ==
    \/ Label(summary.Labels, "orbitd.enable") = "false"
    \/ summary.ID \in pullFailed

\* A loop head that skips no container.
DisabledNever(summary) == FALSE

\* RunOnce: the label that takes a container out of the cycle.
Disabled(summary) == Label(summary.Labels, "orbitd.enable") = "false"

\* RunOnce: one turn of the loop head, up to the call of updateContainer,
\* and the return after the last container.
Loop ==
    /\ pc = "loop"
    /\ IF idx > Len(list)
       THEN /\ runOnceErr' = FALSE
            /\ activeCycles' = activeCycles - 1
            /\ pc' = "select"
            /\ UNCHANGED <<c, processed, list, idx>>
       ELSE IF Disabled(list[idx])
       THEN /\ idx' = idx + 1
            /\ UNCHANGED <<pc, c, processed, list, activeCycles, runOnceErr>>
       ELSE /\ c' = list[idx]
            /\ processed' = Append(processed, [ID |-> list[idx].ID, err |-> FALSE])
            /\ pc' = "update"
            /\ UNCHANGED <<list, idx, activeCycles, runOnceErr>>
    /\ UNCHANGED <<config, resolver, pullFailed, hostnameFailed, world, env, faults,
                   policy,
                   targetImage, oldDigest,
                   newDigest, tx, issued>>

\* A loop that is left as soon as a container's update has logged a failure.
SleepAbortOnError ==
    /\ pc = "sleep"
    /\ idx' = IF processed[Len(processed)].err THEN Len(list) + 1 ELSE idx + 1
    /\ pc' = "loop"
    /\ c' = NoSummary
    /\ policy' = ""
    /\ targetImage' = NoImage
    /\ oldDigest' = NoDigest
    /\ newDigest' = NoDigest
    /\ tx' = NoTx
    /\ UNCHANGED <<config, resolver, pullFailed, hostnameFailed, world, env, faults, list,
                   activeCycles,
                   processed, runOnceErr, issued>>

\* Back in RunOnce after updateContainer: the pacing sleep, then the next
\* container. The locals of the finished call are gone.
Sleep ==
    /\ pc = "sleep"
    /\ idx' = idx + 1
    /\ pc' = "loop"
    /\ c' = NoSummary
    /\ policy' = ""
    /\ targetImage' = NoImage
    /\ oldDigest' = NoDigest
    /\ newDigest' = NoDigest
    /\ tx' = NoTx
    /\ UNCHANGED <<config, resolver, pullFailed, hostnameFailed, world, env, faults, list,
                   activeCycles, processed,
                   runOnceErr, issued>>

\* A select without the ctx.Done case.
WaitDoneNever == FALSE /\ UNCHANGED vars

\* Start's select: the context is done.
WaitDone ==
    /\ pc = "select"
    /\ ctxCancelled
    /\ pc' = "returned"
    /\ UNCHANGED <<config, resolver, pullFailed, hostnameFailed, world, env, faults,
                   locals, tx,
                   cycle, issued>>

\* A tick handled on its own goroutine, whatever the daemon is doing.
WaitTickUnguarded ==
    /\ pc \notin {"start", "returned"}
    /\ tickPending
    /\ tickPending' = FALSE
    /\ EnterRunOnce
    /\ UNCHANGED <<config, resolver, pullFailed, hostnameFailed, world, ctxCancelled,
                   exits, faults,
                   locals, tx, issued>>

\* A select that starts a cycle and leaves the tick in ticker.C.
WaitTickKeepsTick ==
    /\ pc = "select"
    /\ tickPending
    /\ EnterRunOnce
    /\ UNCHANGED <<config, resolver, pullFailed, hostnameFailed, world, env, faults,
                   locals, tx,
                   issued>>

\* Start's select: a tick is taken from ticker.C.
WaitTick ==
    /\ pc = "select"
    /\ tickPending
    /\ tickPending' = FALSE
    /\ EnterRunOnce
    /\ UNCHANGED <<config, resolver, pullFailed, hostnameFailed, world, ctxCancelled,
                   exits, faults,
                   locals, tx,
                   issued>>

\* --------------------------------------------------------- updateContainer

\* The call of updateContainer in progress logs a warning or an error.
Logged(err) ==
    processed' = IF err THEN [processed EXCEPT ![Len(processed)].err = TRUE]
                 ELSE processed

\* A policy taken from the configuration alone.
getPolicyGlobalOnly(labels) == cfg.Policy

\* getPolicy: the container's label when it is set, else the global policy.
getPolicy(labels) ==
    IF labels["orbitd.policy"].has THEN labels["orbitd.policy"].val ELSE cfg.Policy

\* updateContainer up to the target image: the untagged-digest check,
\* getPolicy, and FindUpdateTarget with its three ways out.
FindTarget ==
    /\ pc = "update"
    /\ IF IsUntaggedDigest(c.Image)
       THEN /\ pc' = "sleep"
            /\ Logged(TRUE)
            /\ UNCHANGED <<policy, targetImage, faults, issued>>
       ELSE /\ policy' = getPolicy(c.Labels)
            /\ IF policy' # PolicyDigest
               THEN \E listOk \in (IF ListsTags(c.Image, policy') THEN Outcomes ELSE {TRUE}) :
                      LET found == FindUpdateTarget(c.Image, policy', listOk, RegistryTags) IN
                      /\ faults' = Charged(listOk)
                      /\ issued' = IF ListsTags(c.Image, policy')
                                   THEN issued \cup {Call("listTags", c.ID)}
                                   ELSE issued
                      /\ Logged(found.err)
                      /\ IF found.err \/ found.target = NoImage
                         THEN pc' = "sleep" /\ UNCHANGED targetImage
                         ELSE pc' = "digest" /\ targetImage' = found.target
               ELSE /\ targetImage' = c.Image
                    /\ pc' = "digest"
                    /\ Logged(FALSE)
                    /\ UNCHANGED <<faults, issued>>
    /\ UNCHANGED <<config, resolver, pullFailed, hostnameFailed, world, env, c, oldDigest,
                   newDigest, tx, loop>>

\* What ImageInspect reports of a local image.
ImageInspect(image) ==
    [RepoDigests |-> <<[form |-> "repo@sha256", image |-> image]>>,
     ID |-> [form |-> "sha256", image |-> image]]

\* getImageDigest: the first repo digest, else the image ID; "" and an error
\* when the image cannot be inspected.
getImageDigest(imageName, callOk) ==
    IF ~callOk \/ imageName \notin DOMAIN localImages \/ localImages[imageName] = 0
    THEN [digest |-> NoDigest, err |-> TRUE]
    ELSE LET inspect == ImageInspect(localImages[imageName]) IN
         IF Len(inspect.RepoDigests) > 0
         THEN [digest |-> inspect.RepoDigests[1], err |-> FALSE]
         ELSE [digest |-> inspect.ID, err |-> FALSE]

\* updateContainer: the digest before the pull; its error is dropped.
GetOldDigest ==
    /\ pc = "digest"
    /\ \E ok \in Outcomes :
         /\ faults' = Charged(ok)
         /\ oldDigest' = getImageDigest(targetImage, ok).digest
    /\ issued' = issued \cup {Call("imageInspect", c.ID)}
    /\ pc' = "pull"
    /\ UNCHANGED <<config, resolver, pullFailed, hostnameFailed, world, env, c, policy,
                   targetImage,
                   newDigest, tx, cycle>>

InRegistry(image) == image.kind = "tag" /\ image.repo = Repo /\ image.tag \in TagSet

\* updateContainer: image.Pull of the target image.
Pull ==
    /\ pc = "pull"
    /\ \E ok \in Outcomes :
         /\ faults' = Charged(ok)
         /\ IF ok /\ InRegistry(targetImage)
            THEN /\ localImages' = [localImages EXCEPT
                                      ![targetImage] = RegistryImage(targetImage.tag)]
                 /\ pc' = "check"
                 /\ pullFailed' = pullFailed \ {c.ID}
                 /\ Logged(FALSE)
            ELSE /\ pc' = "sleep"
                 /\ pullFailed' = pullFailed \cup {c.ID}
                 /\ Logged(TRUE)
                 /\ UNCHANGED localImages
    /\ issued' = issued \cup {Call("pull", c.ID)}
    /\ UNCHANGED <<config, resolver, hostnameFailed, engine, nextID, env, locals, tx,
                   loop>>

\* A self check that never recognises the daemon.
isSelfNever(summary, hostnameOk) == FALSE

\* isSelf: the hostname is a prefix of the container's ID; not self when
\* os.Hostname fails.
isSelf(summary, hostnameOk) ==
    IF ~hostnameOk THEN FALSE ELSE HasPrefix(ContainerID(summary.ID), hostname)

\* How os.Hostname can end. Its failure changes isSelf only for the
\* daemon's own container, so it is drawn only there.
HostnameOutcomes(summary) ==
    IF isSelf(summary, TRUE) /\ faults < MaxFaults THEN {TRUE, FALSE} ELSE {TRUE}

\* A comparison that never finds the image up to date.
UpToDateNever(target, current, old, new) == FALSE

\* A comparison with the test of the references inverted.
UpToDateOtherTag(target, current, old, new) ==
    target # current /\ old # NoDigest /\ old = new

\* A comparison of the digests alone, whatever the references.
UpToDateAnyTag(target, current, old, new) == old # NoDigest /\ old = new

\* The test that ends updateContainer with "Image already up to date".
UpToDate(target, current, old, new) ==
    target = current /\ old # NoDigest /\ old = new

\* updateContainer after the pull: the self check, the digest after the
\* pull, the comparison, and the call of recreateContainer.
CheckUpdate ==
    /\ pc = "check"
    /\ \E hostnameOk \in HostnameOutcomes(c) :
       \E ok \in (IF isSelf(c, hostnameOk) THEN {TRUE} ELSE OutcomesAfter(hostnameOk)) :
         LET new == getImageDigest(targetImage, ok) IN
         IF isSelf(c, hostnameOk)
         THEN /\ pc' = "sleep"
              /\ Logged(FALSE)
              /\ UNCHANGED <<faults, hostnameFailed, issued, tx, newDigest>>
         ELSE /\ hostnameFailed' = (hostnameFailed \/ ~hostnameOk)
              /\ faults' = IF hostnameOk THEN Charged(ok) ELSE Charged(ok) + 1
              /\ issued' = issued \cup {Call("imageInspect", c.ID)}
              /\ newDigest' = new.digest
              /\ Logged(new.err)
              /\ IF new.err \/ UpToDate(targetImage, c.Image, oldDigest, new.digest)
                 THEN pc' = "sleep" /\ UNCHANGED tx
                 ELSE /\ pc' = "inspect"
                      /\ tx' = [NoTx EXCEPT !.containerID = c.ID,
                                            !.imageName = targetImage,
                                            !.oldImageID = c.ImageID]
    /\ UNCHANGED <<config, resolver, pullFailed, world, env, c, policy, targetImage,
                   oldDigest, loop>>

\* ------------------------------------------------------- recreateContainer

Record(op, ok) == [tx EXCEPT !.calls = Append(tx.calls, Made(op, ok))]

\* A run state taken for granted from the listing.
IsRunningAssumed(ins) == TRUE

\* oldContainer.IsRunning
IsRunning(ins) == ins.Running

\* container.FromID and Inspect, and the running check that follows them.
Inspect ==
    /\ pc = "inspect"
    /\ \E ok \in Outcomes :
         /\ faults' = Charged(ok)
         /\ IF ok /\ tx.containerID \in DOMAIN engine
            THEN LET ins == [Name |-> engine[tx.containerID].name,
                             Running |-> engine[tx.containerID].running,
                             Config |-> engine[tx.containerID].config,
                             HostConfig |-> engine[tx.containerID].hostConfig,
                             Networks |-> engine[tx.containerID].networks]
                 IN /\ tx' = [tx EXCEPT !.ins = ins,
                                        !.containerName = TrimPrefix(ins.Name)]
                    /\ pc' = IF IsRunning(ins) THEN "stop" ELSE "sleep"
                    /\ Logged(FALSE)
            ELSE /\ pc' = "sleep"
                 /\ Logged(TRUE)
                 /\ UNCHANGED tx
    /\ issued' = issued \cup {Call("inspect", tx.containerID)}
    /\ UNCHANGED <<config, resolver, pullFailed, hostnameFailed, world, env, locals,
                   loop>>

\* A Stop whose failure does not end the transaction: the rename follows.
StopIgnoringFailure ==
    /\ pc = "stop"
    /\ \E ok \in Outcomes :
         /\ faults' = Charged(ok)
         /\ tx' = Record("stop", ok)
         /\ Logged(~ok)
         /\ engine' = IF ok THEN [engine EXCEPT ![tx.containerID].running = FALSE]
                      ELSE engine
    /\ pc' = "rename"
    /\ issued' = issued \cup {Call("stop", tx.containerID)}
    /\ UNCHANGED <<config, resolver, pullFailed, hostnameFailed, nextID, localImages,
                   env, locals,
                   loop>>

\* oldContainer.Stop
Stop ==
    /\ pc = "stop"
    /\ \E ok \in Outcomes :
         /\ faults' = Charged(ok)
         /\ tx' = Record("stop", ok)
         /\ Logged(~ok)
         /\ IF ok
            THEN /\ engine' = [engine EXCEPT ![tx.containerID].running = FALSE]
                 /\ pc' = "rename"
            ELSE /\ pc' = "sleep"
                 /\ UNCHANGED engine
    /\ issued' = issued \cup {Call("stop", tx.containerID)}
    /\ UNCHANGED <<config, resolver, pullFailed, hostnameFailed, nextID, localImages,
                   env, locals,
                   loop>>

\* A rename whose failure is swallowed: no log, no restart of the old container.
RenameToBackupSilent ==
    /\ pc = "rename"
    /\ \E ok \in Outcomes :
         LET done == ok /\ ~NameTaken(BackupName(tx.containerName)) IN
         /\ faults' = Charged(ok)
         /\ tx' = Record("rename", done)
         /\ IF done
            THEN /\ engine' = [engine EXCEPT ![tx.containerID].name =
                                 EngineName(BackupName(tx.containerName))]
                 /\ pc' = "run"
            ELSE /\ pc' = "sleep"
                 /\ UNCHANGED engine
    /\ issued' = issued \cup {Call("rename", tx.containerID)}
    /\ UNCHANGED <<config, resolver, pullFailed, hostnameFailed, nextID, localImages,
                   env, locals,
                   cycle>>

\* ContainerRename to the backup name; the engine refuses a name in use.
RenameToBackup ==
    /\ pc = "rename"
    /\ \E ok \in Outcomes :
         LET done == ok /\ ~NameTaken(BackupName(tx.containerName)) IN
         /\ faults' = Charged(ok)
         /\ tx' = Record("rename", done)
         /\ Logged(~done)
         /\ IF done
            THEN /\ engine' = [engine EXCEPT ![tx.containerID].name =
                                 EngineName(BackupName(tx.containerName))]
                 /\ pc' = "run"
            ELSE /\ pc' = "restart"
                 /\ UNCHANGED engine
    /\ issued' = issued \cup {Call("rename", tx.containerID)}
    /\ UNCHANGED <<config, resolver, pullFailed, hostnameFailed, nextID, localImages,
                   env, locals,
                   loop>>

\* A restart after the failed rename that does not return: Run follows.
RestartAndGoOn ==
    /\ pc = "restart"
    /\ \E ok \in Outcomes :
         /\ faults' = Charged(ok)
         /\ tx' = Record("restart", ok)
         /\ engine' = IF ok THEN [engine EXCEPT ![tx.containerID].running = TRUE]
                      ELSE engine
    /\ pc' = "run"
    /\ issued' = issued \cup {Call("start", tx.containerID)}
    /\ UNCHANGED <<config, resolver, pullFailed, hostnameFailed, nextID, localImages,
                   env, locals,
                   cycle>>

\* oldContainer.Start after the rename failed, and the return.
RestartAfterRenameFailure ==
    /\ pc = "restart"
    /\ \E ok \in Outcomes :
         /\ faults' = Charged(ok)
         /\ tx' = Record("restart", ok)
         /\ engine' = IF ok THEN [engine EXCEPT ![tx.containerID].running = TRUE]
                      ELSE engine
    /\ pc' = "sleep"
    /\ issued' = issued \cup {Call("start", tx.containerID)}
    /\ UNCHANGED <<config, resolver, pullFailed, hostnameFailed, nextID, localImages,
                   env, locals,
                   cycle>>

\* A request built without the host-configuration modifier.
RunRequestWithoutHostConfig(imageName, containerName, ins) ==
    [issued |-> TRUE,
     name |-> containerName,
     config |-> [ins.Config EXCEPT !.Image = imageName],
     hostConfig |-> <<>>,
     networks |-> {} \cup ins.Networks]

\* What container.Run asks of the engine: the name, and the three modifiers
\* applied to the inspected configuration.
RunRequest(imageName, containerName, ins) ==
    [issued |-> TRUE,
     name |-> containerName,
     config |-> [ins.Config EXCEPT !.Image = imageName],
     hostConfig |-> ins.HostConfig,
     networks |-> {} \cup ins.Networks]

\* How container.Run can end: the container created and started, the create
\* refused, or the container created and left behind when its start fails.
RunOutcomes ==
    IF ctxCancelled THEN {"createFailed"}
    ELSE IF faults < MaxFaults THEN {"ok", "createFailed", "startFailed"}
    ELSE {"ok"}

\* container.Run of the replacement under the original name.
Run ==
    /\ pc = "run"
    /\ \E res \in RunOutcomes :
         LET request == RunRequest(tx.imageName, tx.containerName, tx.ins)
             created == res # "createFailed" /\ ~NameTaken(request.name)
             started == created /\ res = "ok"
         IN /\ faults' = Charged(res = "ok")
            /\ tx' = [Record("run", started) EXCEPT !.request = request]
            /\ Logged(~started)
            /\ IF created
               THEN /\ engine' = engine @@
                        (nextID :> [name |-> EngineName(request.name),
                                    running |-> started,
                                    config |-> request.config,
                                    hostConfig |-> request.hostConfig,
                                    networks |-> request.networks,
                                    imageID |-> localImages[request.config.Image]])
                    /\ nextID' = nextID + 1
               ELSE UNCHANGED <<engine, nextID>>
            /\ pc' = IF started THEN "terminate" ELSE "rollbackRename"
    /\ issued' = issued \cup {Call("create", tx.containerID)}
    /\ UNCHANGED <<config, resolver, pullFailed, hostnameFailed, localImages, env,
                   locals, loop>>

\* A rollback rename made under a context of its own, which the
\* cancellation of the cycle does not reach.
RollbackRenameDetached ==
    /\ pc = "rollbackRename"
    /\ \E ok \in (IF faults < MaxFaults THEN {TRUE, FALSE} ELSE {TRUE}) :
         LET done == ok /\ ~NameTaken(tx.containerName) IN
         /\ faults' = IF ok THEN faults ELSE faults + 1
         /\ tx' = Record("renameBack", done)
         /\ IF done
            THEN /\ engine' = [engine EXCEPT ![tx.containerID].name =
                                 EngineName(tx.containerName)]
                 /\ pc' = "rollbackStart"
            ELSE /\ pc' = "sleep"
                 /\ UNCHANGED engine
    /\ issued' = issued \cup {Call("rename", tx.containerID)}
    /\ UNCHANGED <<config, resolver, pullFailed, hostnameFailed, nextID, localImages,
                   env, locals,
                   cycle>>

\* Rollback: ContainerRename back to the original name.
RollbackRename ==
    /\ pc = "rollbackRename"
    /\ \E ok \in Outcomes :
         LET done == ok /\ ~NameTaken(tx.containerName) IN
         /\ faults' = Charged(ok)
         /\ tx' = Record("renameBack", done)
         /\ IF done
            THEN /\ engine' = [engine EXCEPT ![tx.containerID].name =
                                 EngineName(tx.containerName)]
                 /\ pc' = "rollbackStart"
            ELSE /\ pc' = "sleep"
                 /\ UNCHANGED engine
    /\ issued' = issued \cup {Call("rename", tx.containerID)}
    /\ UNCHANGED <<config, resolver, pullFailed, hostnameFailed, nextID, localImages,
                   env, locals,
                   cycle>>

\* A rollback that renames the old container back and does not start it.
RollbackWithoutStart ==
    /\ pc = "rollbackStart"
    /\ pc' = "sleep"
    /\ UNCHANGED <<config, resolver, pullFailed, hostnameFailed, world, env, faults,
                   locals, tx,
                   cycle,
                   issued>>

\* Rollback: oldContainer.Start, and the return.
RollbackStart ==
    /\ pc = "rollbackStart"
    /\ \E ok \in Outcomes :
         /\ faults' = Charged(ok)
         /\ tx' = Record("startBack", ok)
         /\ engine' = IF ok THEN [engine EXCEPT ![tx.containerID].running = TRUE]
                      ELSE engine
    /\ pc' = "sleep"
    /\ issued' = issued \cup {Call("start", tx.containerID)}
    /\ UNCHANGED <<config, resolver, pullFailed, hostnameFailed, nextID, localImages,
                   env, locals,
                   cycle>>

\* A Terminate that reports success and removes nothing.
TerminateWithoutRemove ==
    /\ pc = "terminate"
    /\ \E ok \in Outcomes :
         /\ faults' = Charged(ok)
         /\ tx' = Record("terminate", ok)
         /\ Logged(~ok)
    /\ pc' = "cleanup"
    /\ issued' = issued \cup {Call("remove", tx.containerID)}
    /\ UNCHANGED <<config, resolver, pullFailed, hostnameFailed, world, env, locals,
                   loop>>

\* oldContainer.Terminate; its failure is only logged.
Terminate ==
    /\ pc = "terminate"
    /\ \E ok \in Outcomes :
         /\ faults' = Charged(ok)
         /\ tx' = Record("terminate", ok)
         /\ Logged(~ok)
         /\ engine' = IF ok
                      THEN [id \in DOMAIN engine \ {tx.containerID} |-> engine[id]]
                      ELSE engine
    /\ pc' = "cleanup"
    /\ issued' = issued \cup {Call("remove", tx.containerID)}
    /\ UNCHANGED <<config, resolver, pullFailed, hostnameFailed, nextID, localImages,
                   env, locals,
                   loop>>

ImageInUse(imageID) == \E id \in DOMAIN engine : engine[id].imageID = imageID

\* A cleanupImage that does not read the cleanup flag.
CleanupImageAlways ==
    /\ pc = "cleanup"
    /\ \E ok \in Outcomes :
         LET done == ok /\ ~ImageInUse(tx.oldImageID) IN
         /\ faults' = Charged(ok)
         /\ tx' = Record("imageRemove", done)
         /\ Logged(~done)
         /\ localImages' = IF done
                           THEN [r \in DOMAIN localImages |->
                                   IF localImages[r] = tx.oldImageID THEN 0
                                   ELSE localImages[r]]
                           ELSE localImages
         /\ issued' = issued \cup {Call("imageRemove", tx.containerID)}
    /\ pc' = "sleep"
    /\ UNCHANGED <<config, resolver, pullFailed, hostnameFailed, engine, nextID, env,
                   locals, loop>>

\* cleanupImage: image.Remove of the old image, unforced, when cleanup is on.
CleanupImage ==
    /\ pc = "cleanup"
    /\ IF ~cfg.Cleanup
       THEN UNCHANGED <<faults, tx, localImages, issued, processed>>
       ELSE \E ok \in Outcomes :
              LET done == ok /\ ~ImageInUse(tx.oldImageID) IN
              /\ faults' = Charged(ok)
              /\ tx' = Record("imageRemove", done)
              /\ Logged(~done)
              /\ localImages' = IF done
                                THEN [r \in DOMAIN localImages |->
                                        IF localImages[r] = tx.oldImageID THEN 0
                                        ELSE localImages[r]]
                                ELSE localImages
              /\ issued' = issued \cup {Call("imageRemove", tx.containerID)}
    /\ pc' = "sleep"
    /\ UNCHANGED <<config, resolver, pullFailed, hostnameFailed, engine, nextID, env,
                   locals, loop>>

\* ---------------------------------------------------------- the environment

\* Where the daemon can first tell that a tick has arrived: at Start's
\* select, or in a cycle that has handled its last container (a tick that
\* arrives earlier in the cycle waits in ticker.C until then).
TickSeen == pc = "select" \/ (pc = "loop" /\ idx > Len(list))

\* The ticker delivers a tick; ticker.C holds one, a second is dropped.
Tick ==
    /\ TickSeen
    /\ ~tickPending
    /\ tickPending' = TRUE
    /\ UNCHANGED <<config, resolver, pullFailed, hostnameFailed, world, ctxCancelled,
                   exits, faults,
                   pc, locals, tx,
                   cycle, issued>>

\* The context is cancelled (SIGINT or SIGTERM).
Cancel ==
    /\ pc # "returned"
    /\ ~ctxCancelled
    /\ ctxCancelled' = TRUE
    /\ UNCHANGED <<config, resolver, pullFailed, hostnameFailed, world, tickPending,
                   exits, faults,
                   pc, locals, tx,
                   cycle, issued>>

\* The container being processed exits on its own between the listing and
\* its inspection (the daemon reads the run state nowhere earlier).
ContainerExit ==
    /\ pc = "inspect"
    /\ exits < MaxExits
    /\ c.ID \in DOMAIN engine
    /\ engine[c.ID].running
    /\ engine' = [engine EXCEPT ![c.ID].running = FALSE]
    /\ exits' = exits + 1
    /\ UNCHANGED <<config, resolver, pullFailed, hostnameFailed, nextID, localImages,
                   ctxCancelled,
                   tickPending,
                   faults, pc, locals, tx, cycle, issued>>

\* -------------------------------------------------------- the specification

Next ==
    \/ Start
    \/ ContainerList
    \/ Loop
    \/ Sleep
    \/ WaitDone
    \/ WaitTick
    \/ FindTarget
    \/ GetOldDigest
    \/ Pull
    \/ CheckUpdate
    \/ Inspect
    \/ Stop
    \/ RenameToBackup
    \/ RestartAfterRenameFailure
    \/ Run
    \/ RollbackRename
    \/ RollbackStart
    \/ Terminate
    \/ CleanupImage
    \/ Tick
    \/ Cancel
    \/ ContainerExit

Spec == Init /\ [][Next]_vars

\* The steps of the daemon's goroutine other than the return from Start.
DaemonStep ==
    \/ Start
    \/ ContainerList
    \/ Loop
    \/ Sleep
    \/ WaitTick
    \/ FindTarget
    \/ GetOldDigest
    \/ Pull
    \/ CheckUpdate
    \/ Inspect
    \/ Stop
    \/ RenameToBackup
    \/ RestartAfterRenameFailure
    \/ Run
    \/ RollbackRename
    \/ RollbackStart
    \/ Terminate
    \/ CleanupImage

\* One deployment: the daemon outside the listed containers, cleanup on,
\* any global policy, no labels.
InitFair ==
    /\ Init
    /\ cfg.Cleanup
    /\ ~cfg.RequireLabel
    /\ hostname = <<9>>
    /\ engine[1].config.Labels = NoLabels

\* The goroutine keeps running: every call returns (each is bounded by the
\* context or by a timeout) and the pacing sleep ends. A select with several
\* ready cases picks one at random, so a case that is ready again and again
\* is taken in the end: strong fairness for the ctx.Done case.
FairSpec == InitFair /\ [][Next]_vars /\ WF_vars(DaemonStep) /\ SF_vars(WaitDone)

\* The daemon starts over a store whose copy of container a's tag is already
\* the registry's rebuilt image while the container runs the older build:
\* what a same-tag update leaves when its transaction did not commit.
InitStale ==
    /\ InitOver(Store(RegistryImage(TagA)))
    /\ query = NoQuery
    /\ answer = NoAnswer

StaleSpec == InitStale /\ [][Next]_vars

\* -------------------------------------------------- the resolver on its own

\* Version parts of the images and tags FindUpdateTarget is asked about.
Parts == {0, 1}
Versions == {NumTag(<<x, y, z>>) : x \in Parts, y \in Parts, z \in Parts}

\* The registry's tags: the versions, a version of a higher major, a short
\* tag that reads as 1.1.0, and a tag that is no version.
PoolTags == Versions \cup {NumTag(<<2, 0, 0>>), NumTag(<<1, 1>>), WordTag("dev")}
TagLists == UNION {[1..n -> PoolTags] : n \in 0..MaxTags}

\* The images: a version tag, a tag that is no version, a digest.
QueryImages ==
    {TagRef(Repo, t) : t \in Versions}
    \cup {TagRef(Repo, WordTag("dev")), TagRef(Repo, TagLatest), DigestRef(Repo, 1)}

\* The policy FindUpdateTarget can be handed: getPolicy passes a label on as
\* it is, so any string.
PolicyValues == {PolicyDigest, PolicyPatch, PolicyMinor, PolicyMajor, "bogus"}

InitResolver ==
    /\ InitDaemon
    /\ cfg = [Policy |-> PolicyDigest, Cleanup |-> TRUE, RequireLabel |-> FALSE]
    /\ hostname = <<9>>
    /\ engine[1].config.Labels = NoLabels
    /\ query \in [image : QueryImages, tags : TagLists]
    /\ answer = NoAnswer

\* One call of FindUpdateTarget, as updateContainer makes it.
Resolve ==
    /\ ~answer.asked
    /\ \E p \in PolicyValues :
       \E listOk \in (IF ListsTags(query.image, p) THEN {TRUE, FALSE} ELSE {TRUE}) :
         LET found == FindUpdateTarget(query.image, p, listOk, query.tags) IN
         answer' = [asked |-> TRUE, policy |-> p, listOk |-> listOk,
                    listed |-> ListsTags(query.image, p),
                    target |-> found.target, err |-> found.err]
    /\ UNCHANGED <<config, world, env, faults, hostnameFailed, pullFailed, pc, locals,
                   tx, cycle, issued, query>>

ResolverSpec == InitResolver /\ [][Resolve]_vars

\* ------------------------------------------------------------------ claims

Failed(op) == \E i \in DOMAIN tx.calls : tx.calls[i] = Made(op, FALSE)
Succeeded(op) == \E i \in DOMAIN tx.calls : tx.calls[i] = Made(op, TRUE)

\* C1: when the creation or the start of the replacement has failed and no
\* rollback step (rename back, restart) has failed, the transaction ends with
\* the original container running under its original name, on its original
\* image and configuration.
C1_RollbackRestoresOriginal ==
    (pc = "sleep" /\ Failed("run") /\ ~Failed("renameBack") /\ ~Failed("startBack"))
        => /\ tx.containerID \in DOMAIN engine
           /\ engine[tx.containerID].name = c.Names[1]
           /\ engine[tx.containerID].running
           /\ engine[tx.containerID].config = tx.ins.Config
           /\ engine[tx.containerID].imageID = c.ImageID

\* A transaction whose replacement failed has been rolled back in full.
C1_Witness == pc = "sleep" /\ Failed("run") /\ Succeeded("startBack")

\* C2: the request that creates the replacement carries the original name
\* and the inspected configuration, host configuration and networks of the
\* original container, with nothing but the image replaced by the target.
C2_ReplacementKeepsConfiguration ==
    tx.request.issued
        => /\ EngineName(tx.request.name) = c.Names[1]
           /\ tx.request.config = [tx.ins.Config EXCEPT !.Image = targetImage]
           /\ tx.request.hostConfig = tx.ins.HostConfig
           /\ tx.request.networks = tx.ins.Networks
           /\ tx.containerID \in DOMAIN engine
                => /\ tx.ins.Config = engine[tx.containerID].config
                   /\ tx.ins.HostConfig = engine[tx.containerID].hostConfig
                   /\ tx.ins.Networks = engine[tx.containerID].networks

\* A replacement on a newer version has been created and started.
C2_Witness ==
    /\ tx.request.issued
    /\ Succeeded("run")
    /\ targetImage # c.Image
    /\ tx.request.hostConfig # <<>>

DisabledIDs ==
    {id \in DOMAIN engine :
        Label(engine[id].config.Labels, "orbitd.enable") = "false"}

\* C3: no call is ever issued for a container labelled orbitd.enable=false,
\* and no such container is handed to updateContainer, whatever the global
\* policy and the require-label setting.
C3_DisabledNeverProcessed ==
    /\ \A call \in issued : call.id \notin DisabledIDs
    /\ \A i \in DOMAIN processed : processed[i].ID \notin DisabledIDs
    /\ c.ID \notin DisabledIDs
    /\ tx.containerID \notin DisabledIDs

\* A cycle has ended that listed a disabled container next to a processed
\* one, in require-label mode under the major policy.
C3_Witness ==
    /\ pc = "select"
    /\ \E i \in DOMAIN list : list[i].ID \in DisabledIDs
    /\ Len(processed) = 1
    /\ cfg.RequireLabel
    /\ cfg.Policy = PolicyMajor

\* The calls that pull an image or belong to a replacement transaction.
PullOrTransaction ==
    {"pull", "inspect", "stop", "rename", "start", "create", "remove", "imageRemove"}

\* C4: in require-label mode no pull and no call of a replacement
\* transaction is issued for a container that does not carry
\* orbitd.enable=true.
C4_RequireLabelHonoured ==
    cfg.RequireLabel
        => \A call \in issued :
             (call.op \in PullOrTransaction /\ call.id \in DOMAIN engine)
                => Label(engine[call.id].config.Labels, "orbitd.enable") = "true"

\* C5: a container found not running at its inspection is left as it is:
\* recreateContainer returns without a stop, rename, create or remove.
C5_NotRunningLeftUntouched ==
    (tx.ins # NoInspect /\ ~tx.ins.Running)
        => /\ pc = "sleep"
           /\ tx.calls = <<>>
           /\ ~tx.request.issued
           /\ tx.containerID \in DOMAIN engine
           /\ engine[tx.containerID].name = tx.ins.Name
           /\ engine[tx.containerID].config = tx.ins.Config
           /\ ~engine[tx.containerID].running

\* A container with a newer image pulled for it was found stopped.
C5_Witness ==
    /\ pc = "sleep"
    /\ tx.ins # NoInspect
    /\ ~tx.ins.Running
    /\ localImages[targetImage] # c.ImageID

SelfID(id) == HasPrefix(ContainerID(id), hostname)
BeforeSelfCheck == {"listTags", "imageInspect", "pull"}

C7_SameDigestNoTransaction ==
    (newDigest # NoDigest /\ targetImage = c.Image /\ oldDigest = newDigest)
        => /\ pc = "sleep"
           /\ tx = NoTx
           /\ c.ID \in DOMAIN engine
           /\ engine[c.ID].running
           /\ engine[c.ID].name = c.Names[1]

\* An image was pulled and found unchanged.
C7_Witness ==
    /\ pc = "sleep"
    /\ Call("pull", c.ID) \in issued
    /\ newDigest # NoDigest
    /\ targetImage = c.Image
    /\ oldDigest = newDigest

IDsOf(seq) == [i \in 1..Len(seq) |-> seq[i].ID]
NotDisabled(summary) == ~Disabled(summary)

\* C8: a cycle in which the update of a container has failed still hands
\* every listed container that is not disabled to updateContainer, in list
\* order, and RunOnce returns no error.
C8_FailureDoesNotAbortCycle ==
    (pc = "select" /\ \E i \in DOMAIN processed : processed[i].err)
        => /\ ~runOnceErr
           /\ IDsOf(processed) = IDsOf(SelectSeq(list, NotDisabled))

\* A cycle has ended whose first container failed and whose second was
\* processed all the same.
C8_Witness ==
    /\ pc = "select"
    /\ Len(processed) = 2
    /\ processed[1].err

\* C9: at most one cycle is active, and it is active exactly while the
\* daemon is inside RunOnce; a transaction belongs to the one container the
\* active cycle is at; a cycle begins with no container in progress.
C9_CyclesNeverOverlap ==
    /\ activeCycles \in {0, 1}
    /\ activeCycles = 1 <=> pc \notin {"start", "select", "returned"}
    /\ tx # NoTx => /\ activeCycles = 1
                    /\ idx \in 1..Len(list)
                    /\ c = list[idx]
                    /\ tx.containerID = c.ID
    /\ pc = "list" => tx = NoTx /\ c = NoSummary /\ processed = <<>>

\* A tick waits in ticker.C while the cycle that processed both containers
\* is still active.
C9_Witness ==
    /\ activeCycles = 1
    /\ tickPending
    /\ Len(processed) = 2

\* C10 as stated: a cycle at startup, a cycle for a tick taken at the
\* select, a return once the context is cancelled, and no cycle begun after
\* the cancellation.
C10_NoCycleAfterCancel ==
    /\ [][pc = "start" /\ pc' # pc => pc' = "list"]_vars
    /\ (pc = "start") ~> (pc = "list")
    /\ (pc = "select" /\ tickPending) ~> (pc = "list" \/ ctxCancelled)
    /\ ctxCancelled ~> (pc = "returned")
    /\ [][ctxCancelled => activeCycles' <= activeCycles]_vars

\* C10, amended: a cycle at startup, a cycle for a tick taken at the
\* select, a return once the context is cancelled. A cycle can still begin
\* after the cancellation (the startup cycle, or a tick the select takes
\* before ctx.Done); its listing fails, so it processes no container.
C10_StartRunsUntilCancelled ==
    /\ [][pc = "start" /\ pc' # pc => pc' = "list"]_vars
    /\ (pc = "start") ~> (pc = "list")
    /\ (pc = "select" /\ tickPending) ~> (pc = "list" \/ ctxCancelled)
    /\ ctxCancelled ~> (pc = "returned")
    /\ [][ctxCancelled /\ pc = "list" => pc' \in {"list", "select"}]_vars
    /\ [][pc = "returned" => pc' = "returned"]_vars

\* Start has returned under a cancelled context, its last listing refused.
C10_Witness ==
    /\ pc = "returned"
    /\ ctxCancelled
    /\ runOnceErr
    /\ Call("pull", 1) \in issued

\* The ends of a transaction that has entered its Stop step.
TxEnded == pc = "sleep" /\ tx.calls # <<>>
Reported == processed[Len(processed)].err

Committed ==
    /\ Succeeded("run")
    /\ \E id \in DOMAIN engine \ {tx.containerID} :
         /\ engine[id].name = c.Names[1]
         /\ engine[id].running
         /\ engine[id].config.Image = tx.imageName

RolledBack ==
    /\ ~Succeeded("run")
    /\ tx.containerID \in DOMAIN engine
    /\ engine[tx.containerID].name = c.Names[1]
    /\ engine[tx.containerID].running
    /\ engine[tx.containerID].config = tx.ins.Config
    /\ Reported

Down ==
    /\ ~Succeeded("run")
    /\ ~\E id \in DOMAIN engine : engine[id].name = c.Names[1] /\ engine[id].running
    /\ Reported

\* C11: a transaction that has entered its Stop step reaches its end, under
\* every failure of its calls and under cancellation, and at its end it is
\* Committed (the replacement runs under the original name), RolledBack (the
\* old container runs under the original name, the failure logged) or Down
\* (no container runs under the original name, the failure logged).
C11_TransactionTerminates ==
    /\ [](TxEnded => (Committed \/ RolledBack \/ Down))
    /\ (pc = "stop") ~> TxEnded

\* A transaction cancelled on its way has ended Down.
C11_Witness == TxEnded /\ Down /\ ctxCancelled /\ Succeeded("stop")

\* C12: a container whose pull has failed is skipped with nothing changed:
\* updateContainer returns with the failure logged and no transaction, and
\* the container stays in the engine, running under its name. The daemon
\* keeps nothing against it: every later cycle that lists it hands it to
\* updateContainer again.
C12_PullFailureSkipsAndRetries ==
    /\ \A id \in pullFailed :
         /\ id \in DOMAIN engine
         /\ engine[id].running
         /\ engine[id].name \in {EngineName(<<"a">>), EngineName(<<"b">>)}
    /\ (pc = "sleep" /\ c.ID \in pullFailed)
         => tx = NoTx /\ newDigest = NoDigest /\ Reported
    /\ (pc = "select" /\ ~runOnceErr)
         => \A id \in pullFailed : \E i \in DOMAIN processed : processed[i].ID = id

\* The pull is about to be made again for a container whose pull failed in
\* an earlier cycle.
C12_Witness == pc = "pull" /\ c.ID \in pullFailed /\ ~ctxCancelled

\* What a call of FindUpdateTarget was asked, read from the question alone.
Cur == NewVersion(query.image.tag)
TagVersion(i) == NewVersion(query.tags[i])
Parseable == {i \in DOMAIN query.tags : TagVersion(i).ok}
Newer == {i \in Parseable : GreaterThan(TagVersion(i), Cur)}
Listed(p) == answer.asked /\ answer.policy = p /\ answer.listed /\ answer.listOk

\* The answer is a greatest version among the tags at the positions S, or
\* absent when S is empty.
GreatestOf(S) ==
    IF S = {} THEN answer.target = NoImage
    ELSE \E i \in S :
           /\ answer.target = TagRef(Repo, query.tags[i])
           /\ \A j \in S : ~GreaterThan(TagVersion(j), TagVersion(i))

SameMajorNewer == {i \in Newer : TagVersion(i).major = Cur.major}

CaretNewer ==
    {i \in Newer :
        /\ TagVersion(i).major = Cur.major
        /\ Cur.major = 0 => /\ TagVersion(i).minor = Cur.minor
                            /\ Cur.minor > 0}

Parses(tag) == NewVersion(tag).ok

SomeDigests == {NoDigest} \cup {[form |-> "repo@sha256", image |-> n] : n \in {1, 2}}

\* C16: for an image pinned by digest or tagged with something that is no
\* version, every policy resolves to the current image, without an error
\* and without a tag listing, and updateContainer's up-to-date test comes
\* down to the digest comparison.
C16_NonSemverIsDigestBehaviour ==
    (answer.asked /\ (query.image.kind = "digest" \/ ~Parses(query.image.tag)))
        => /\ answer.target = query.image
           /\ ~answer.err
           /\ ~answer.listed
           /\ \A old \in SomeDigests : \A new \in SomeDigests :
                UpToDate(answer.target, query.image, old, new)
                    <=> (old # NoDigest /\ old = new)

\* A digest-pinned image has been resolved under Minor with tags on offer.
C16_Witness ==
    /\ answer.asked
    /\ query.image = DigestRef(Repo, 1)
    /\ answer.policy = PolicyMinor
    /\ Len(query.tags) = 3

PolicyLabel(labels) == labels["orbitd.policy"]
Resolved(image, p) == FindUpdateTarget(image, p, TRUE, RegistryTags).target

\* C17 as stated: the target is resolved with the label when it is present
\* and valid, and with the global policy otherwise.
C17_InvalidLabelFallsBackToGlobal ==
    pc = "digest"
        => targetImage =
             Resolved(c.Image,
                      IF PolicyLabel(c.Labels).has /\ IsValid(PolicyLabel(c.Labels).val)
                      THEN PolicyLabel(c.Labels).val
                      ELSE cfg.Policy)

\* C17, amended: the policy is the label whenever it is present, valid or
\* not, and the global policy only when it is absent; with an invalid label
\* the target is the current image and no tags are listed (the Digest
\* behaviour), whatever the global policy.
C17_LabelUsedAsIs ==
    pc = "digest"
        => /\ policy = IF PolicyLabel(c.Labels).has
                       THEN PolicyLabel(c.Labels).val
                       ELSE cfg.Policy
           /\ targetImage = Resolved(c.Image, policy)
           /\ (PolicyLabel(c.Labels).has /\ ~IsValid(PolicyLabel(c.Labels).val))
                => /\ targetImage = c.Image
                   /\ Call("listTags", c.ID) \notin issued

\* A container with an invalid policy label has been resolved under the
\* global policy Minor.
C17_Witness ==
    /\ pc = "digest"
    /\ PolicyLabel(c.Labels) = Present("bogus")
    /\ cfg.Policy = PolicyMinor

\* The registry lists no version newer than the image's within the policy.
NoNewer(image, p) ==
    /\ ListsTags(image, p)
    /\ findBestVersion(parseImage(image).repo, RegistryTags,
                       NewVersion(parseImage(image).tag), p) = NoImage

\* updateContainer is past its target step for a container with no newer
\* version on offer, the tag listing having succeeded.
NoNewerResolved ==
    c # NoSummary /\ pc # "update" /\ NoNewer(c.Image, policy) /\ ~Reported

\* C18 as stated: with no newer version on offer the target is the current
\* image and the container's image is still pulled.
C18_NoNewerStillPulls ==
    NoNewerResolved
        => /\ targetImage = c.Image
           /\ pc = "sleep" => Call("pull", c.ID) \in issued

\* C18, amended: with no newer version on offer FindUpdateTarget answers ""
\* and updateContainer returns at once: no target, no digest read, no pull,
\* no transaction, so a rebuild of the same tag is not picked up.
C18_NoNewerReturnsWithoutPull ==
    NoNewerResolved
        => /\ pc = "sleep"
           /\ targetImage = NoImage
           /\ oldDigest = NoDigest
           /\ newDigest = NoDigest
           /\ tx = NoTx
           /\ \A call \in issued : call.id = c.ID => call.op = "listTags"

\* A container already on the newest minor version has been passed over.
C18_Witness ==
    /\ NoNewerResolved
    /\ pc = "sleep"
    /\ policy = PolicyMinor
    /\ c.Image = TagRef(Repo, NumTag(<<1, 3, 0>>))

\* The step of updateContainer in which crane.ListTags is called and fails:
\* under a cancelled context, or on a fault of its own.
ListFails ==
    /\ pc = "update"
    /\ ListsTags(c.Image, policy')
    /\ ctxCancelled \/ faults' > faults

BackupLeft ==
    \E id \in DOMAIN engine :
        engine[id].name = EngineName(BackupName(tx.containerName))

\* C20 as stated: after every transaction whose replacement was created and
\* started, the old container is gone and no container bears the backup name.
C20_CommittedRemovesBackup ==
    (pc = "sleep" /\ Succeeded("run"))
        => tx.containerID \notin DOMAIN engine /\ ~BackupLeft

\* C20, amended: every such transaction calls Terminate on the old
\* container. When the call succeeds the old container is gone and no
\* container bears the backup name; when it fails the failure is only
\* logged, the transaction still ends Committed, and the old container
\* stays in the engine, stopped, under the backup name.
C20_BackupRemovedWhenTerminateSucceeds ==
    (pc = "sleep" /\ Succeeded("run"))
        => /\ Committed
           /\ Succeeded("terminate") \/ Failed("terminate")
           /\ Succeeded("terminate")
                => tx.containerID \notin DOMAIN engine /\ ~BackupLeft
           /\ Failed("terminate")
                => /\ tx.containerID \in DOMAIN engine
                   /\ engine[tx.containerID].name =
                        EngineName(BackupName(tx.containerName))
                   /\ ~engine[tx.containerID].running
                   /\ Reported

\* A transaction has ended Committed with the old container removed.
C20_Witness == pc = "sleep" /\ Succeeded("run") /\ Succeeded("terminate")

\* Every call op of the transaction comes after a successful call before.
PrecededBy(op, before) ==
    \A j \in DOMAIN tx.calls :
        tx.calls[j].op = op
            => \E i \in 1..(j - 1) : tx.calls[i] = Made(before, TRUE)

\* The replacement runs under the original name.
ReplacementRuns ==
    \E id \in DOMAIN engine \ {tx.containerID} :
        /\ engine[id].name = c.Names[1]
        /\ engine[id].running
        /\ engine[id].config.Image = tx.imageName

\* C21: the calls of a transaction come in the order stop, rename to the
\* backup name, create and start of the replacement, removal of the old
\* container: the rename only after a successful stop, the creation only
\* after a successful rename, the removal only after the replacement was
\* created and started; and the old container is in the engine in every
\* state unless the replacement runs under the original name.
C21_StopRenameCreateRemove ==
    /\ tx.calls # <<>> => tx.calls[1].op = "stop"
    /\ PrecededBy("rename", "stop")
    /\ PrecededBy("restart", "stop")
    /\ PrecededBy("run", "rename")
    /\ PrecededBy("renameBack", "rename")
    /\ PrecededBy("terminate", "run")
    /\ tx.request.issued => Succeeded("stop") /\ Succeeded("rename")
    /\ tx # NoTx => tx.containerID \in DOMAIN engine \/ ReplacementRuns

\* The old container has been removed after the replacement was started.
C21_Witness ==
    /\ Succeeded("terminate")
    /\ tx.containerID \notin DOMAIN engine
    /\ tx.calls[1] = Made("stop", TRUE)
    /\ tx.calls[2] = Made("rename", TRUE)
    /\ tx.calls[3] = Made("run", TRUE)

\* C22: when the rename to the backup name fails, the transaction at once
\* tries to start the original container, still under its original name,
\* and ends: no replacement is created, nothing is removed, and the old
\* image is not cleaned up.
C22_RenameFailureRestartsAndEnds ==
    Failed("rename")
        => /\ pc \in {"restart", "sleep"}
           /\ pc = "restart" => tx.calls = <<Made("stop", TRUE), Made("rename", FALSE)>>
           /\ pc = "sleep"
                => /\ Len(tx.calls) = 3
                   /\ SubSeq(tx.calls, 1, 2) = <<Made("stop", TRUE), Made("rename", FALSE)>>
                   /\ tx.calls[3].op = "restart"
                   /\ Call("start", tx.containerID) \in issued
                   /\ engine[tx.containerID].running = tx.calls[3].ok
           /\ ~tx.request.issued
           /\ Call("remove", tx.containerID) \notin issued
           /\ Call("imageRemove", tx.containerID) \notin issued
           /\ tx.containerID \in DOMAIN engine
           /\ engine[tx.containerID].name = c.Names[1]

\* A transaction has ended whose rename failed and whose restart succeeded.
C22_Witness ==
    /\ pc = "sleep"
    /\ Failed("rename")
    /\ Succeeded("restart")
    /\ engine[tx.containerID].running

ImageRemovals == {call \in issued : call.op = "imageRemove"}

\* C23: the old image is removed only at the end of a transaction whose
\* replacement was created and started, after the Terminate of the old
\* container, and only when the cleanup flag is on; no removal is issued for
\* a container that was skipped or whose transaction failed at Stop or at
\* the rename or was rolled back or ended down; and a removal that fails
\* leaves the transaction Committed.
C23_ImageRemovedOnlyAfterCommit ==
    /\ ImageRemovals # {} => cfg.Cleanup
    /\ (localImages[TagRef(Repo, TagA)] = 0 \/ localImages[TagRef(Repo, TagLatest)] = 0)
            => ImageRemovals # {}
    /\ \A call \in ImageRemovals :
         call.id \in DOMAIN engine
            => /\ ~engine[call.id].running
               /\ \E n \in {<<"a">>, <<"b">>} :
                    engine[call.id].name = EngineName(BackupName(n))
    /\ \A i \in DOMAIN tx.calls :
         tx.calls[i].op = "imageRemove"
            => /\ cfg.Cleanup
               /\ i = Len(tx.calls)
               /\ tx.calls[i - 1].op = "terminate"
               /\ Succeeded("run")
               /\ pc = "sleep"
               /\ Committed
    /\ (tx.calls # <<>> /\ ~Succeeded("run"))
            => Call("imageRemove", tx.containerID) \notin issued
    /\ (pc = "sleep" /\ tx.calls = <<>> /\ c # NoSummary)
            => Call("imageRemove", c.ID) \notin issued

\* A Committed transaction has removed the old image.
C23_Witness ==
    /\ pc = "sleep"
    /\ Succeeded("imageRemove")
    /\ Committed
    /\ localImages[TagRef(Repo, TagA)] = 0 \/ localImages[TagRef(Repo, TagLatest)] = 0

\* A Committed transaction whose image removal failed.
C23_FailedRemovalWitness ==
    pc = "sleep" /\ Failed("imageRemove") /\ Committed

\* C24 as stated: a container that is processed, is not the daemon itself,
\* and runs an image other than the one the successful pull of its target
\* left in the store (read back by the digest after the pull) has a
\* replacement transaction started for it in that pass.
C24_DifferingImageIsReplaced ==
    (/\ pc = "sleep"
     /\ c # NoSummary
     /\ ~isSelf(c, TRUE)
     /\ newDigest # NoDigest
     /\ newDigest.image # c.ImageID)
        => tx # NoTx

\* A replacement of a container by the image of its own tag is under way.
SameTagReplacement == tx # NoTx /\ tx.imageName = c.Image

\* The state a same-tag update leaves when its transaction did not commit:
\* container a was stopped at least once, never replaced, runs its old image
\* under its own name, and the store's copy of its tag is the registry's.
StaleAfterFailure ==
    /\ pc = "select"
    /\ Call("stop", 1) \in issued
    /\ 1 \in DOMAIN engine
    /\ engine[1].name = EngineName(<<"a">>)
    /\ engine[1].running
    /\ engine[1].imageID = 1
    /\ localImages[TagRef(Repo, TagA)] = RegistryImage(TagA)

\* C25 as stated: while the store already holds the registry's content of
\* the tag of container a, which runs the older build, no cycle attempts the
\* same-tag replacement of the container again.
C25_NeverRetried ==
    ~(SameTagReplacement /\ tx.containerID = 1 /\ tx.oldImageID = 1)

\* C25, amended: while the store already holds the registry's content of the
\* tag, a cycle that reads the digest before the pull finds it equal to the
\* digest after the pull and attempts no replacement, and the container
\* keeps running its old image; a same-tag replacement is attempted again
\* only in a cycle whose digest read before the pull failed.
C25_RetriedOnlyWithoutOldDigest ==
    /\ SameTagReplacement => oldDigest = NoDigest
    /\ (/\ pc = "sleep"
        /\ c # NoSummary
        /\ targetImage = c.Image
        /\ oldDigest # NoDigest
        /\ newDigest # NoDigest)
            => /\ oldDigest = newDigest
               /\ tx = NoTx
               /\ c.ID \in DOMAIN engine
               /\ engine[c.ID].imageID = c.ImageID
               /\ engine[c.ID].name = c.Names[1]

\* A cycle has found container a, on its old image, up to date.
C25_Witness ==
    /\ pc = "sleep"
    /\ c # NoSummary
    /\ c.ID = 1
    /\ targetImage = c.Image
    /\ oldDigest # NoDigest
    /\ oldDigest = newDigest
    /\ newDigest.image # c.ImageID
    /\ tx = NoTx
    /\ engine[1].running

\* The steps of a transaction between its successful Stop and the start of
\* the replacement.
AfterStopBeforeStart ==
    pc \in {"rename", "restart", "run", "rollbackRename", "rollbackStart"}

\* Every call of the transaction after the Stop has failed.
AllFailedAfterStop ==
    /\ tx.calls # <<>>
    /\ tx.calls[1] = Made("stop", TRUE)
    /\ \A i \in 2..Len(tx.calls) : ~tx.calls[i].ok

RunningUnderOriginalName ==
    \E id \in DOMAIN engine : engine[id].name = c.Names[1] /\ engine[id].running

\* C26: the rollback is made under the context of the cycle. Once the
\* context is cancelled, every call a transaction makes between its Stop and
\* the start of the replacement (rename, create, rename back, restart) fails
\* and changes no container, and a transaction whose calls after the Stop
\* all failed ends with the original container stopped and no container
\* running under the original name.
C26_CancelledRollbackLeavesDown ==
    /\ [][(ctxCancelled /\ AfterStopBeforeStart)
            => /\ tx'.calls # tx.calls
               /\ ~tx'.calls[Len(tx'.calls)].ok
               /\ engine' = engine
               /\ ctxCancelled']_vars
    /\ []((pc = "sleep" /\ ctxCancelled /\ AllFailedAfterStop)
            => /\ Len(tx.calls) > 1
               /\ tx.containerID \in DOMAIN engine
               /\ ~engine[tx.containerID].running
               /\ ~RunningUnderOriginalName
               /\ Down)

\* A transaction cancelled after its rename has ended with the original
\* container stopped under the backup name.
C26_Witness ==
    /\ pc = "sleep"
    /\ ctxCancelled
    /\ tx.calls = <<Made("stop", TRUE), Made("rename", TRUE),
                    Made("run", FALSE), Made("renameBack", FALSE)>>
    /\ ~NameTaken(tx.containerName)
    /\ ~engine[tx.containerID].running
    /\ engine[tx.containerID].name = EngineName(BackupName(tx.containerName))

\* The pass over container c has pulled a target other than the image
\* reference the container runs, and the container is not the daemon's.
PulledOtherTag ==
    /\ pc = "sleep"
    /\ c # NoSummary
    /\ targetImage # NoImage
    /\ targetImage # c.Image
    /\ c.ID \notin pullFailed
    /\ ~isSelf(c, TRUE)

\* C27 as stated: whenever a semver policy has resolved a target other than
\* the current image and the pull has succeeded, a replacement transaction
\* is started for a container that is not the daemon's.
C27_OtherTagAlwaysReplaced == PulledOtherTag => tx # NoTx

\* C27, amended: in that case the transaction is started whenever the digest
\* of the target can be read after the pull, whether or not it equals the
\* digest before the pull; when that read fails the container is skipped
\* with the failure logged and no transaction is started.
C27_OtherTagReplacedWhenDigestRead ==
    PulledOtherTag
        => /\ newDigest # NoDigest
                => /\ tx # NoTx
                   /\ tx.containerID = c.ID
                   /\ tx.imageName = targetImage
           /\ newDigest = NoDigest => tx = NoTx /\ Reported

\* A transaction has been started for a newer version whose image was in
\* the store before the pull, with equal digests before and after it.
C27_Witness ==
    /\ PulledOtherTag
    /\ oldDigest # NoDigest
    /\ oldDigest = newDigest
    /\ tx # NoTx
    /\ tx.imageName = targetImage
    /\ Succeeded("stop")

\* C28: ticks are not accumulated. ticker.C holds at most one tick, a tick
\* enters it without starting anything, and every cycle the select starts
\* takes the one pending tick and leaves none, so after a long cycle at most
\* one cycle starts at once. A failed ContainerList ends its cycle with the
\* error returned, no container processed and no container changed, and
\* Start goes back to its select: it returns only once the context is
\* cancelled.
C28_TicksNotAccumulated ==
    /\ [][(pc = "select" /\ pc' = "list")
            => (tickPending /\ ~tickPending')]_vars
    /\ [][(~tickPending /\ tickPending')
            => (TickSeen /\ pc' = pc /\ activeCycles' = activeCycles)]_vars
    /\ [][(pc = "list" /\ pc' \notin {"list", "loop"})
            => /\ pc' = "select"
               /\ runOnceErr'
               /\ processed' = <<>>
               /\ engine' = engine
               /\ localImages' = localImages
               /\ activeCycles' = 0]_vars
    /\ [](pc = "list" => processed = <<>> /\ activeCycles = 1)
    /\ [](pc = "returned" => ctxCancelled)

\* After a cycle that failed to list the containers, a later cycle has
\* processed them, and a tick that arrived meanwhile waits for its end.
C28_Witness ==
    /\ runOnceErr
    /\ ~ctxCancelled
    /\ pc = "loop"
    /\ idx > Len(list)
    /\ Len(processed) > 0
    /\ tickPending
====
